---- MODULE Spec2Model ----
(***************************************************************************)
(* Model of l134k/predictor.py: the Predictor class, a stateful            *)
(* orchestrator that holds a model handle and the label-normalization      *)
(* statistics, trains (k-fold or single pass), evaluates and persists.     *)
(*                                                                         *)
(* Optional Python values are sequences of length 0 or 1: None is <<>>,     *)
(* a set value v is <<v>>.  Real numbers are fixed-point integers with      *)
(* Scale units per 1.0.  The disk is a partial function from file names    *)
(* to contents; a file exists iff its name is in the domain.               *)
(***************************************************************************)
EXTENDS Integers, Sequences, FiniteSets, TLC

VARIABLES
    model,      \* self.model: None or the handle [arch, params]
    y_mean,     \* self.y_mean: None or a number
    y_std,      \* self.y_std:  None or a number
    disk,       \* the files under out_dir (and the files the caller names)
    pc,         \* position of the running method, "idle" between calls
    call,       \* the arguments and locals of the running method
    out,        \* outcome of the last finished call: ok/raised and its value
    log,        \* steps the running (or last) training run has taken, in order
    hist        \* bookkeeping about past calls (what each save_model wrote)

vars == <<model, y_mean, y_std, disk, pc, call, out, log, hist>>

----------------------------------------------------------------------------
(* Bounds of the model *)

MaxSaves == 4      \* save_model calls in one behaviour
NRows == 4         \* rows of the data set x, y
MaxFolds == 2      \* largest folds argument of kfcv_train
TestRows == 2      \* rows of the caller's test_data

None == <<>>
Some(v) == <<v>>
IsNone(o) == o = <<>>
Val(o) == o[1]

----------------------------------------------------------------------------
(* File names and the filesystem operations save_model uses *)

Exts == <<"json", "h5", "attr">>
ExtSet == {"json", "h5", "attr"}

\* model_path + '.json' etc. (lines 179-181)
PrimaryFile(model_path, ext) == <<model_path, "", ext>>
\* model_path + '_backup.json' etc. (lines 185, 188, 191)
BackupFile(model_path, ext) == <<model_path, "_backup", ext>>

\* os.path.exists
Exists(d, f) == f \in DOMAIN d

\* A buggy variant of Move: an existing destination is kept and the source
\* is dropped.
MoveKeepingDestination(d, src, dst) ==
    IF dst \in DOMAIN d THEN [f \in DOMAIN d \ {src} |-> d[f]]
    ELSE [f \in (DOMAIN d \ {src}) \cup {dst} |-> IF f = dst THEN d[src] ELSE d[f]]

\* shutil.move(src, dst): a rename, replacing dst if present
Move(d, src, dst) ==
    [f \in (DOMAIN d \ {src}) \cup {dst} |-> IF f = dst THEN d[src] ELSE d[f]]

\* open(f, 'w') ... write ... close: create or replace
WriteFile(d, f, content) ==
    [g \in DOMAIN d \cup {f} |-> IF g = f THEN content ELSE d[g]]

\* A buggy variant of BackupIfExists: the old file is deleted, not kept.
BackupIfExistsDropping(d, model_path, ext) ==
    [f \in DOMAIN d \ {PrimaryFile(model_path, ext)} |-> d[f]]

\* if os.path.exists(p): shutil.move(p, model_path + '_backup' + ext)
BackupIfExists(d, model_path, ext) ==
    IF Exists(d, PrimaryFile(model_path, ext))
    THEN Move(d, PrimaryFile(model_path, ext), BackupFile(model_path, ext))
    ELSE d

\* What a file holds: gen identifies the save_model call that wrote it,
\* data is the payload, partial marks a write that was cut short.
Content(gen, data) == [gen |-> gen, data |-> data, partial |-> FALSE]
Partial(c) == [c EXCEPT !.partial = TRUE]

\* Payload of each of the three files for the held model and statistics:
\* structure (.json) and weights (.h5) by the external save routine (line
\* 192), the pair (y_mean, y_std) by pickle_dump (line 193).
Payload(ext, m, mean, std) ==
    IF ext = "json" THEN <<"structure", Val(m).arch>>
    ELSE IF ext = "h5" THEN <<"weights", Val(m).params>>
    ELSE <<"stats", mean, std>>

----------------------------------------------------------------------------
(* Numbers.  A float is [nan, v]: v counts 1/Scale units; nan marks a      *)
(* non-finite result (numpy's nan or inf, produced with a warning and no   *)
(* exception by a division by zero or a mean of nothing).                  *)

Scale == 100

Num(v) == [nan |-> FALSE, v |-> v]
NaN == [nan |-> TRUE, v |-> 0]
Unit(n) == Num(n * Scale)

FAdd(a, b) == IF a.nan \/ b.nan THEN NaN ELSE Num(a.v + b.v)
FSub(a, b) == IF a.nan \/ b.nan THEN NaN ELSE Num(a.v - b.v)
FMul(a, b) == IF a.nan \/ b.nan THEN NaN ELSE Num((a.v * b.v) \div Scale)
FDiv(a, b) ==
    IF a.nan \/ b.nan \/ b.v = 0 THEN NaN ELSE Num((a.v * Scale) \div b.v)
FAbs(a) == IF a.nan THEN NaN ELSE Num(IF a.v < 0 THEN 0 - a.v ELSE a.v)

RECURSIVE Bisect(_, _, _)
Bisect(n, lo, hi) ==
    IF hi - lo <= 1 THEN lo
    ELSE LET mid == (lo + hi) \div 2
         IN  IF mid * mid <= n THEN Bisect(n, mid, hi) ELSE Bisect(n, lo, mid)

\* floor of the square root of a natural number (below 2^31)
ISqrt(n) == Bisect(n, 0, IF n < 46340 THEN n + 1 ELSE 46340)

FSqrt(a) == IF a.nan \/ a.v < 0 THEN NaN ELSE Num(ISqrt(a.v * Scale))

RECURSIVE FSum(_)
FSum(s) == IF s = <<>> THEN Num(0) ELSE FAdd(Head(s), FSum(Tail(s)))

\* np.mean(a, axis=0) of a one-dimensional array; nan for an empty one
Mean(s) == IF s = <<>> THEN NaN ELSE FDiv(FSum(s), Unit(Len(s)))

\* np.std(a, axis=0): the population standard deviation
Std(s) ==
    LET m == Mean(s)
        sq == [i \in 1..Len(s) |-> FMul(FSub(s[i], m), FSub(s[i], m))]
    IN  FSqrt(Mean(sq))

----------------------------------------------------------------------------
(* Label arrays.  A row of a label array is [src, i, v]: the data set it   *)
(* came from ("xy" for the x, y arguments, "td" for the caller's           *)
(* test_data), its index there and its current value.  A feature array is  *)
(* the sequence of the rows' [src, i].                                     *)

Values(y) == [k \in 1..Len(y) |-> y[k].v]
Rows(y) == [k \in 1..Len(y) |-> [src |-> y[k].src, i |-> y[k].i]]
RowSet(x) == {x[k] : k \in 1..Len(x)}

\* (y - self.y_mean) / self.y_std, elementwise (lines 47-48)
Standardize(y, mean, std) ==
    [k \in 1..Len(y) |-> [y[k] EXCEPT !.v = FDiv(FSub(y[k].v, mean), std)]]

\* normalize, lines 43-44: the statistics it stores
NormalizeStats(y_train, other_ys) ==
    [mean |-> Mean(Values(y_train)), std |-> Std(Values(y_train))]

\* normalize, lines 47-49: the arrays it returns, (y_train, other_ys)
NormalizeResult(y_train, other_ys) ==
    LET st == NormalizeStats(y_train, other_ys)
    IN  [y_train |-> Standardize(y_train, st.mean, st.std),
         other_ys |-> [k \in 1..Len(other_ys) |->
                          Standardize(other_ys[k], st.mean, st.std)]]

----------------------------------------------------------------------------
(* The model handle.  Its architecture and parameters are opaque to the    *)
(* Predictor; params records where the parameters come from: origin is     *)
(* "init" for a freshly built or reset model, "file" for parameters read   *)
(* from a weights file that no training of this program wrote, and         *)
(* trained lists, in order, the training runs applied since then.          *)

InitParams == [origin |-> "init", trained |-> <<>>]
PretrainedParams == [origin |-> "file", trained |-> <<>>]

\* rmgpy build_model(attribute_vector_size, **model_settings), line 30
BuiltModel == Some([arch |-> "cnn", params |-> InitParams])

\* A buggy variant of ResetModelOf: the parameters are kept.
ResetModelKeeping(m) == m

\* rmgpy reset_model(model), line 33: same architecture, fresh parameters
ResetModelOf(m) == Some([Val(m) EXCEPT !.params = InitParams])

\* A buggy variant of LoadedModel: the file is not read.
LoadedModelKeeping(m, content) == m

\* model.load_weights(path), line 37: the parameters stored in the file
LoadedModel(m, content) == Some([Val(m) EXCEPT !.params = content.data[2]])

\* rmgpy train_model(model, ...), lines 90 and 150: the model it returns,
\* fitted from the parameters the model held; tag names the run and fold
TrainedModel(m, tag) ==
    Some([Val(m) EXCEPT !.params.trained = Append(@, tag)])

\* The caller's pretrained weights file, outside out_dir
PretrainedFile == << <<"pretrained">>, "", "h5" >>

Ok(op, value) == [op |-> op, status |-> "ok", err |-> "", value |-> value]
Raised(op, err) == [op |-> op, status |-> "raised", err |-> err, value |-> <<>>]
NoOutcome == [op |-> "", status |-> "none", err |-> "", value |-> <<>>]

----------------------------------------------------------------------------
(* save_model, lines 177-193, one step per filesystem operation.           *)
(* call = [op, model_path, gen, snap, at]: gen numbers the call, snap is   *)
(* the disk when the call began, at is "" or the step at which the         *)
(* process died.                                                           *)

\* os.path.join(self.out_dir, 'model'), line 174
ModelPath == <<"model">>
\* os.path.join(self.out_dir, 'model_fold_{}'.format(fold)), line 124
FoldPath(fold) == <<"model_fold_", fold>>

SavePaths == {ModelPath}

NextSaveStep(step) ==
    CASE step = "backup_json" -> "backup_h5"
      [] step = "backup_h5" -> "backup_attr"
      [] step = "backup_attr" -> "write_json"
      [] step = "write_json" -> "write_h5"
      [] step = "write_h5" -> "write_attr"
      [] step = "write_attr" -> "idle"

BackupSteps == {"backup_json", "backup_h5", "backup_attr"}
WriteSteps == {"write_json", "write_h5", "write_attr"}
StepExt(step) ==
    IF step \in {"backup_json", "write_json"} THEN "json"
    ELSE IF step \in {"backup_h5", "write_h5"} THEN "h5" ELSE "attr"

NoDone == [p \in SavePaths |-> <<>>]
LastTwo(s) == IF Len(s) > 2 THEN SubSeq(s, Len(s) - 1, Len(s)) ELSE s

\* What a call writes into each of its three files
FileContent(gen, ext, m, mean, std) == Content(gen, Payload(ext, m, mean, std))
Written(ext) == FileContent(call.gen, ext, model, y_mean, y_std)

\* The effect of one statement of save_model on the disk
SaveStepDisk(d, model_path, step, gen, m, mean, std) ==
    IF step \in BackupSteps
    THEN BackupIfExists(d, model_path, StepExt(step))
    ELSE WriteFile(d, PrimaryFile(model_path, StepExt(step)),
                   FileContent(gen, StepExt(step), m, mean, std))

SaveOrder ==
    <<"backup_json", "backup_h5", "backup_attr", "write_json", "write_h5", "write_attr">>

\* The disk after the first n statements of save_model
RECURSIVE SaveUpTo(_, _, _, _, _, _, _)
SaveUpTo(d, model_path, n, gen, m, mean, std) ==
    IF n = 0 THEN d
    ELSE SaveStepDisk(SaveUpTo(d, model_path, n - 1, gen, m, mean, std),
                      model_path, SaveOrder[n], gen, m, mean, std)

\* lines 182-191 as a whole: the three rename-if-exists steps in order
BackedUp(d, model_path) == SaveUpTo(d, model_path, 3, 0, None, None, None)

\* lines 182-193 as a whole, for a held model: the disk after the call
SavedDisk(d, model_path, gen, m, mean, std) ==
    SaveUpTo(d, model_path, Len(SaveOrder), gen, m, mean, std)

\* The three _backup files of a path hold one generation, whole
CompleteBackup(d, model_path) ==
    /\ \A e \in ExtSet : Exists(d, BackupFile(model_path, e))
    /\ \A e \in ExtSet : ~d[BackupFile(model_path, e)].partial
    /\ \A e \in ExtSet : d[BackupFile(model_path, e)].gen =
                         d[BackupFile(model_path, "json")].gen
\* The most recent generation that was backed up whole: the old value, or
\* the one the _backup files now hold
BackedUpGeneration(old, d, model_path) ==
    IF CompleteBackup(d, model_path)
    THEN Some([e \in ExtSet |-> d[BackupFile(model_path, e)]])
    ELSE old

\* Predictor.save_model(model_path, ...) is called
SaveModelCall(model_path) ==
    /\ pc = "idle"
    /\ hist.saves < MaxSaves
    /\ pc' = "backup_json"
    /\ call' = [op |-> "save_model", model_path |-> model_path,
                gen |-> hist.saves + 1, snap |-> disk, at |-> ""]
    /\ hist' = [hist EXCEPT !.saves = @ + 1]
    /\ out' = NoOutcome
    /\ UNCHANGED <<model, y_mean, y_std, disk, log>>

\* lines 182-191: one of the three rename-if-exists steps
SaveBackup ==
    /\ pc \in BackupSteps
    /\ disk' = SaveStepDisk(disk, call.model_path, pc, call.gen, model, y_mean, y_std)
    /\ pc' = NextSaveStep(pc)
    /\ hist' = [hist EXCEPT !.backedUp = BackedUpGeneration(@, disk', call.model_path)]
    /\ UNCHANGED <<model, y_mean, y_std, call, out, log>>

\* line 192, the external save routine: structure, then weights.  With no
\* model held it raises on the first access to the model.
SaveWriteModel ==
    /\ pc \in {"write_json", "write_h5"}
    /\ IF IsNone(model)
       THEN /\ pc' = "idle"
            /\ out' = Raised("save_model", "AttributeError")
            /\ hist' = [hist EXCEPT !.done[call.model_path] = <<>>]
            /\ disk' = disk
       ELSE /\ disk' = SaveStepDisk(disk, call.model_path, pc, call.gen,
                                    model, y_mean, y_std)
            /\ pc' = NextSaveStep(pc)
            /\ UNCHANGED <<out, hist>>
    /\ UNCHANGED <<model, y_mean, y_std, call, log>>

\* line 193: pickle_dump(mean_and_std_path, (self.y_mean, self.y_std));
\* the call returns
SaveWriteStats ==
    /\ pc = "write_attr"
    /\ disk' = SaveStepDisk(disk, call.model_path, pc, call.gen, model, y_mean, y_std)
    /\ pc' = "idle"
    /\ out' = Ok("save_model", <<>>)
    /\ hist' = [hist EXCEPT !.done[call.model_path] =
                   LastTwo(Append(@, [e \in ExtSet |-> Written(e)]))]
    /\ UNCHANGED <<model, y_mean, y_std, call, log>>

\* The process dies inside save_model.  During a write step the file being
\* written may be left absent, untouched or cut short.  The Predictor of
\* the next process starts as constructed (lines 20-23).
Crash ==
    /\ pc \in BackupSteps \cup WriteSteps
    /\ \/ disk' = disk
       \/ /\ pc \in WriteSteps
          /\ ~IsNone(model)
          /\ disk' = WriteFile(disk, PrimaryFile(call.model_path, StepExt(pc)),
                               Partial(Written(StepExt(pc))))
    /\ pc' = "idle"
    /\ call' = [call EXCEPT !.at = pc]
    /\ out' = NoOutcome
    /\ hist' = [hist EXCEPT !.done[call.model_path] = <<>>, !.statsRun = FALSE,
                            !.statsFrom = "unset"]
    /\ model' = None
    /\ y_mean' = None
    /\ y_std' = None
    /\ UNCHANGED log

----------------------------------------------------------------------------
(* The data the caller holds: NRows rows with pairwise different labels.   *)

LabelOf(i) == Unit(i * i)
YRow(src, i) == [src |-> src, i |-> i, v |-> LabelOf(IF src = "td" THEN i + 1 ELSE i)]
YAll == [i \in 1..NRows |-> YRow("xy", i)]
XAll == Rows(YAll)
Prefix(s, n) == SubSeq(s, 1, n)

----------------------------------------------------------------------------
(* predict and evaluate, lines 195-212, as functions of the state          *)

\* self.model.predict(x).flatten(), line 196: one output per row.  The
\* network is external; its output here is a fixed function of the row and
\* of how often the parameters were trained.
Forward(m, x) ==
    [k \in 1..Len(x) |-> Num((x[k].i * Scale) \div (1 + Len(Val(m).params.trained)))]

\* y_norm * self.y_std + self.y_mean, line 203
Denormalize(y_norm, mean, std) ==
    [k \in 1..Len(y_norm) |-> FAdd(FMul(y_norm[k], Val(std)), Val(mean))]

\* A buggy variant of PredictResult: no check of the statistics; unset
\* statistics are used as 0 and 1.
PredictResultUnchecked(m, mean, std, x, norm) ==
    IF IsNone(m) THEN Raised("predict", "AttributeError")
    ELSE IF norm THEN Ok("predict", <<Forward(m, x)>>)
    ELSE Ok("predict", <<Denormalize(Forward(m, x),
                                     IF IsNone(mean) THEN Some(Unit(0)) ELSE mean,
                                     IF IsNone(std) THEN Some(Unit(1)) ELSE std)>>)

\* predict(x, norm), lines 195-203
PredictResult(m, mean, std, x, norm) ==
    IF IsNone(m) THEN Raised("predict", "AttributeError")
    ELSE IF norm THEN Ok("predict", <<Forward(m, x)>>)
    ELSE IF IsNone(mean) \/ IsNone(std) THEN Raised("predict", "UsageError")
    ELSE Ok("predict", <<Denormalize(Forward(m, x), mean, std)>>)

\* util.calculate_rmse and util.calculate_mae: root mean square and mean
\* absolute difference; of two empty arrays the mean of nothing, nan
CalculateRmse(y, y_pred) ==
    FSqrt(Mean([k \in 1..Len(y) |-> FMul(FSub(y[k], y_pred[k]), FSub(y[k], y_pred[k]))]))
CalculateMae(y, y_pred) ==
    Mean([k \in 1..Len(y) |-> FAbs(FSub(y[k], y_pred[k]))])

\* evaluate(x, y, norm), lines 205-212.  With norm set and y_std unset the
\* power None**2.0 raises.
EvaluateResult(m, mean, std, x, y, norm) ==
    LET p == PredictResult(m, mean, std, x, norm)
        rmse == CalculateRmse(Values(y), p.value[1])
        mae == CalculateMae(Values(y), p.value[1])
    IN  IF p.status = "raised" THEN Raised("evaluate", p.err)
        ELSE IF ~norm THEN Ok("evaluate", <<rmse, mae>>)
        ELSE IF IsNone(std) THEN Raised("evaluate", "TypeError")
        ELSE Ok("evaluate", <<FMul(FMul(Val(std), Val(std)), rmse),
                              FMul(FMul(Val(std), Val(std)), mae)>>)

\* Whether evaluate gets as far as lines 207-208, the two metric functions
MetricsInvoked(m, mean, std, x, norm) ==
    PredictResult(m, mean, std, x, norm).status = "ok"

----------------------------------------------------------------------------
(* The Predictor's short methods, each one step                            *)

\* build_model, lines 25-30
BuildModel ==
    /\ pc = "idle"
    /\ IsNone(model)
    /\ model' = BuiltModel
    /\ out' = Ok("build_model", <<>>)
    /\ UNCHANGED <<y_mean, y_std, disk, pc, call, log, hist>>

\* normalize(y_train), lines 42-49, called by the user of the class
NormalizeCall(y_train) ==
    /\ pc = "idle"
    /\ y_mean' = Some(NormalizeStats(y_train, <<>>).mean)
    /\ y_std' = Some(NormalizeStats(y_train, <<>>).std)
    /\ out' = Ok("normalize", <<NormalizeResult(y_train, <<>>).y_train>>)
    /\ hist' = [hist EXCEPT !.statsRun = TRUE, !.statsFrom = "normalize"]
    /\ UNCHANGED <<model, disk, pc, call, log>>

\* load_mean_and_std(mean_and_std_path), lines 39-40.  pickle_load raises
\* for a missing file and for one cut short; nothing is assigned then.
LoadMeanAndStd(model_path) ==
    LET f == PrimaryFile(model_path, "attr") IN
    /\ pc = "idle"
    /\ IF ~Exists(disk, f)
       THEN /\ out' = Raised("load_mean_and_std", "IOError")
            /\ UNCHANGED <<y_mean, y_std, hist>>
       ELSE IF disk[f].partial
       THEN /\ out' = Raised("load_mean_and_std", "EOFError")
            /\ UNCHANGED <<y_mean, y_std, hist>>
       ELSE /\ y_mean' = disk[f].data[2]
            /\ y_std' = disk[f].data[3]
            /\ out' = Ok("load_mean_and_std", <<>>)
            /\ hist' = [hist EXCEPT !.statsRun = TRUE,
                           !.statsFrom = IF IsNone(disk[f].data[2]) \/ IsNone(disk[f].data[3])
                                         THEN "file_unset" ELSE "file_set"]
    /\ UNCHANGED <<model, disk, pc, call, log>>

\* predict(x, norm), lines 195-203
Predict(x, norm) ==
    /\ pc = "idle"
    /\ call' = [op |-> "predict", x |-> x, norm |-> norm,
                pre |-> <<model, y_mean, y_std>>, statsRun |-> hist.statsRun]
    /\ out' = PredictResult(model, y_mean, y_std, x, norm)
    /\ UNCHANGED <<model, y_mean, y_std, disk, pc, log, hist>>

\* save_model(model_path, ...), lines 177-193, run from entry to return.
\* With no model held the external save routine raises after the renames.
SaveModel(model_path) ==
    /\ pc = "idle"
    /\ hist.saves < MaxSaves
    /\ call' = [op |-> "save_model", model_path |-> model_path,
                gen |-> hist.saves + 1, snap |-> disk, at |-> ""]
    /\ IF IsNone(model)
       THEN /\ disk' = BackedUp(disk, model_path)
            /\ out' = Raised("save_model", "AttributeError")
            /\ hist' = [hist EXCEPT !.saves = @ + 1, !.done[model_path] = <<>>,
                           !.backedUp = BackedUpGeneration(@, disk', model_path)]
       ELSE /\ disk' = SavedDisk(disk, model_path, hist.saves + 1, model, y_mean, y_std)
            /\ out' = Ok("save_model", <<>>)
            /\ hist' = [hist EXCEPT !.saves = @ + 1, !.done[model_path] =
                           LastTwo(Append(@, [e \in ExtSet |->
                               FileContent(hist.saves + 1, e, model, y_mean, y_std)])),
                           !.backedUp = BackedUpGeneration(@, disk', model_path)]
    /\ UNCHANGED <<model, y_mean, y_std, pc, log>>

----------------------------------------------------------------------------
(* The Predictor used call by call: build, normalize, load, save, predict  *)

Init ==
    /\ model = None
    /\ y_mean = None
    /\ y_std = None
    /\ disk = <<>>
    /\ pc = "idle"
    /\ call = [op |-> ""]
    /\ out = NoOutcome
    /\ log = <<>>
    /\ hist = [saves |-> 0, done |-> NoDone, statsRun |-> FALSE, statsFrom |-> "unset",
               runs |-> 0, persisted |-> <<>>, backedUp |-> None]

----------------------------------------------------------------------------
(* SpecSave: save_model step by step, with the process dying at any step   *)

NextSave ==
    \/ BuildModel
    \/ NormalizeCall(Prefix(YAll, 2))
    \/ \E p \in SavePaths : SaveModelCall(p)
    \/ SaveBackup
    \/ SaveWriteModel
    \/ SaveWriteStats
    \/ Crash

SpecSave == Init /\ [][NextSave]_vars

----------------------------------------------------------------------------
(* Claims about save_model                                                 *)

FilesOf(d, model_path) == {f \in DOMAIN d : f[1] = model_path}
CompleteGeneration(d, model_path) ==
    /\ \A e \in ExtSet : Exists(d, PrimaryFile(model_path, e))
    /\ \A e \in ExtSet : ~d[PrimaryFile(model_path, e)].partial
    /\ \A e \in ExtSet : d[PrimaryFile(model_path, e)].gen =
                         d[PrimaryFile(model_path, "json")].gen

\* C1: after two or more save_model calls on one path that ran to
\* completion one after the other, each primary file holds what the last
\* call wrote, each _backup file holds what the call before it wrote, and
\* no file of the path holds anything older.
C1_PrimaryLastBackupPrevious ==
    \A p \in SavePaths :
        (pc = "idle" /\ Len(hist.done[p]) = 2) =>
            /\ \A e \in ExtSet :
                /\ Exists(disk, PrimaryFile(p, e))
                /\ disk[PrimaryFile(p, e)] = hist.done[p][2][e]
                /\ Exists(disk, BackupFile(p, e))
                /\ disk[BackupFile(p, e)] = hist.done[p][1][e]
                /\ hist.done[p][2][e].gen = hist.done[p][1][e].gen + 1
            /\ \A f \in FilesOf(disk, p) :
                disk[f].gen >= hist.done[p][1]["json"].gen

\* C1 witness: a third call has completed after a completed second one,
\* and the two generations on disk differ in their statistics.
C1_Witness ==
    /\ pc = "idle"
    /\ hist.saves = 3
    /\ Len(hist.done[ModelPath]) = 2
    /\ hist.done[ModelPath][2]["attr"].data # hist.done[ModelPath][1]["attr"].data
    /\ hist.done[ModelPath][1]["attr"].gen = 2

InSaveModel == call.op = "save_model" /\ pc \in BackupSteps \cup WriteSteps
DiedInSaveModel == call.op = "save_model" /\ pc = "idle" /\ call.at # ""
PastBackups ==
    call.op = "save_model" /\ (pc \in WriteSteps \/ (pc = "idle" /\ call.at \in WriteSteps))

\* C2 as stated: after a save_model call died between its renames and its
\* writes (or during the writes), the three files of the most recent
\* generation that was backed up whole still exist on disk, unchanged.
C2_AsStated ==
    (DiedInSaveModel /\ call.at \in WriteSteps /\ ~IsNone(hist.backedUp)) =>
        \A e \in ExtSet :
            \E f \in FilesOf(disk, call.model_path) :
                f[3] = e /\ disk[f] = Val(hist.backedUp)[e]

\* C2 amended: at every step of a save_model call, and after the process
\* died at any of them, every file the call found as a primary file still
\* exists unchanged, under its primary or its _backup name; once the three
\* renames are done (death between them and the writes, or during the
\* writes) it is the _backup file that holds it.  So the generation the
\* call found is kept whole when the call found it whole.
C2_BackedUpGenerationKept ==
    (InSaveModel \/ DiedInSaveModel) =>
        \A e \in ExtSet :
            LET prim == PrimaryFile(call.model_path, e)
                back == BackupFile(call.model_path, e)
            IN  Exists(call.snap, prim) =>
                    /\ \/ Exists(disk, prim) /\ disk[prim] = call.snap[prim]
                       \/ Exists(disk, back) /\ disk[back] = call.snap[prim]
                    /\ PastBackups => Exists(disk, back) /\ disk[back] = call.snap[prim]

\* C2 witness: the process died while writing the weights, cutting the
\* file short, in a call that found a complete generation and an older
\* backup.
C2_Witness ==
    /\ DiedInSaveModel
    /\ call.at = "write_h5"
    /\ CompleteGeneration(call.snap, call.model_path)
    /\ Exists(call.snap, BackupFile(call.model_path, "h5"))
    /\ Exists(disk, PrimaryFile(call.model_path, "h5"))
    /\ disk[PrimaryFile(call.model_path, "h5")].partial

----------------------------------------------------------------------------
(* SpecPredict: the Predictor used call by call                            *)

MaxPredictRows == 1    \* rows of the x given to predict

NextPredict ==
    \/ BuildModel
    \/ \E n \in 1..2 : NormalizeCall(Prefix(YAll, n))
    \/ \E p \in SavePaths : LoadMeanAndStd(p)
    \/ \E p \in SavePaths : SaveModel(p)
    \/ \E n \in 0..MaxPredictRows, norm \in BOOLEAN : Predict(Prefix(XAll, n), norm)

SpecPredict == Init /\ [][NextPredict]_vars

\* C3 as stated: predict(x, norm=False) raises the usage error exactly
\* when neither normalize nor load_mean_and_std has run since construction
\* and returns y_norm * y_std + y_mean otherwise; predict(x, norm=True)
\* returns the raw output in every state.
C3_AsStated ==
    out.op = "predict" =>
        IF call.norm
        THEN out.status = "ok"
        ELSE IF ~call.statsRun
        THEN out.status = "raised" /\ out.err = "UsageError"
        ELSE out.status = "ok"

\* C3 amended: predict changes nothing.  With no model held it raises an
\* attribute error whatever norm is.  With a model held, norm=True returns
\* the raw output; norm=False raises the usage error when y_mean or y_std
\* is None and returns y_norm * y_std + y_mean otherwise.  The statistics
\* are None until normalize has run or load_mean_and_std has loaded a pair
\* of set values, and again after load_mean_and_std loaded a pair that was
\* saved unset.
C3_PredictOutcome ==
    out.op = "predict" =>
        LET m == call.pre[1]
            mean == call.pre[2]
            std == call.pre[3]
            unset == IsNone(mean) \/ IsNone(std)
        IN  /\ <<model, y_mean, y_std>> = call.pre
            /\ IsNone(m) => out.status = "raised" /\ out.err = "AttributeError"
            /\ (~IsNone(m) /\ call.norm) =>
                   out.status = "ok" /\ out.value[1] = Forward(m, call.x)
            /\ (~IsNone(m) /\ ~call.norm /\ unset) =>
                   out.status = "raised" /\ out.err = "UsageError"
            /\ (~IsNone(m) /\ ~call.norm /\ ~unset) =>
                   /\ out.status = "ok"
                   /\ Len(out.value[1]) = Len(call.x)
                   /\ \A k \in 1..Len(call.x) :
                          out.value[1][k] =
                              FAdd(FMul(Forward(m, call.x)[k], std[1]), mean[1])
            /\ unset <=> hist.statsFrom \in {"unset", "file_unset"}

\* C3 witness: with a model held and statistics never set, a predict with
\* norm=False on one row has raised the usage error.
C3_Witness ==
    /\ out.op = "predict"
    /\ ~call.norm
    /\ Len(call.x) = 1
    /\ ~IsNone(model)
    /\ IsNone(y_mean)
    /\ out.status = "raised"
    /\ out.err = "UsageError"

----------------------------------------------------------------------------
(* The external splitters (rmgpy.cnn_framework.data), as the calls use     *)
(* them.  A data set is a pair [x, y] of arrays of equal length whose k-th *)
(* entries belong to the same row.  Ratios are in percent.  A seeded       *)
(* shuffle is a fixed permutation for each seed and length; here the       *)
(* rotation by seed modulo length.                                         *)

SeedSplitTest == 7
SeedFolds == 2
SeedOneFold == 4
SeedInnerVal == 77

Pair(x, y) == [x |-> x, y |-> y]
EmptyPair == Pair(<<>>, <<>>)
Size(x) == Len(x)

Rotate(s, k) == IF s = <<>> THEN s ELSE SubSeq(s, (k % Len(s)) + 1, Len(s)) \o SubSeq(s, 1, k % Len(s))
Shuffle(seed, d) == Pair(Rotate(d.x, seed), Rotate(d.y, seed))
Slice(d, from, to) == Pair(SubSeq(d.x, from, to), SubSeq(d.y, from, to))
Join(a, b) == Pair(a.x \o b.x, a.y \o b.y)

\* split_test_from_train_and_val(x, y, extra_data=names, shuffle_seed=7,
\* testing_ratio=test_split), lines 53-55: [test, train]
SplitTestFromTrainAndVal(d, test_split) ==
    LET sh == Shuffle(SeedSplitTest, d)
        k == (Len(d.x) * test_split) \div 100
    IN  [test |-> Slice(sh, 1, k), train |-> Slice(sh, k + 1, Len(d.x))]

\* prepare_folded_data(x, y, folds, shuffle_seed=2), line 78: folds
\* disjoint groups that together are the data given
PrepareFoldedData(d, folds) ==
    LET sh == Shuffle(SeedFolds, d)
        n == Len(d.x)
    IN  [g \in 1..folds |-> Slice(sh, ((g - 1) * n) \div folds + 1, (g * n) \div folds)]

RECURSIVE JoinAll(_)
JoinAll(ds) == IF ds = <<>> THEN EmptyPair ELSE Join(Head(ds), JoinAll(Tail(ds)))

\* split_inner_val_from_train_data(x, y, shuffle_seed, training_ratio),
\* lines 141-143: [train, inner_val]
SplitInnerVal(d, seed, train_ratio) ==
    LET sh == Shuffle(seed, d)
        k == (Len(d.x) * train_ratio) \div 100
    IN  [train |-> Slice(sh, 1, k), inner_val |-> Slice(sh, k + 1, Len(d.x))]

\* prepare_data_one_fold(folded_xs, folded_ys, current_fold, shuffle_seed=4,
\* training_ratio), lines 85-87: the fold's group is the outer validation
\* set; the other groups are split into training and inner validation
PrepareDataOneFold(folded, fold, train_ratio) ==
    LET others == JoinAll(SubSeq(folded, 1, fold) \o SubSeq(folded, fold + 2, Len(folded)))
        sp == SplitInnerVal(others, SeedOneFold, train_ratio)
    IN  [train |-> sp.train, inner_val |-> sp.inner_val, outer_val |-> folded[fold + 1]]

\* The caller's data: x, y and, when given, test_data
DataXY == Pair(XAll, YAll)
TestData == Pair(Rows([i \in 1..TestRows |-> YRow("td", i)]), [i \in 1..TestRows |-> YRow("td", i)])

\* A buggy variant of TestSet: test_data is ignored.
TestSetFromSplit(split, test_data) == split.test

\* lines 76-77 and 137-138: the test set used, the caller's when given
TestSet(split, test_data) ==
    IF ~IsNone(test_data) THEN Val(test_data) ELSE split.test

\* lines 71-72 and 134-135: the test_split handed to split_test
EffectiveTestSplit(test_split, test_data) ==
    IF ~IsNone(test_data) THEN 0 ELSE test_split

----------------------------------------------------------------------------
(* kfcv_train (lines 69-131) and full_train (lines 133-175), one step per  *)
(* call they make.  call holds the arguments and the locals:               *)
(*   test           x_test, y_test                                         *)
(*   train_and_val  x_train_and_val, y_train_and_val (x_train, y_train of  *)
(*                  full_train before line 141)                            *)
(*   folded         folded_xs, folded_ys                                   *)
(*   fold           the loop variable                                      *)
(*   cur            x_train, y_train, x_inner_val, y_inner_val,            *)
(*                  x_outer_val, y_outer_val                               *)
(* save_names is left False: the two names files are not modelled.         *)

TrainOps == {"kfcv_train", "full_train"}
RunSteps == {"split", "folds", "inner", "prepare", "normalize", "train",
             "evaluate", "save", "reset"}

\* A buggy variant of NextRunStep: the model is persisted before it is
\* evaluated.
NextRunStepSaveFirst(op, step) ==
    IF op = "kfcv_train"
    THEN CASE step = "split" -> "folds"
           [] step = "folds" -> "prepare"
           [] step = "prepare" -> "normalize"
           [] step = "normalize" -> "train"
           [] step = "train" -> "save"
           [] step = "save" -> "evaluate"
           [] step = "evaluate" -> "reset"
           [] step = "reset" -> "prepare"
    ELSE CASE step = "split" -> "inner"
           [] step = "inner" -> "normalize"
           [] step = "normalize" -> "train"
           [] step = "train" -> "save"
           [] step = "save" -> "evaluate"
           [] step = "evaluate" -> "idle"

\* The statement order of the two methods; kfcv_train's "reset" is followed
\* by "prepare" while folds remain
NextRunStep(op, step) ==
    IF op = "kfcv_train"
    THEN CASE step = "split" -> "folds"
           [] step = "folds" -> "prepare"
           [] step = "prepare" -> "normalize"
           [] step = "normalize" -> "train"
           [] step = "train" -> "evaluate"
           [] step = "evaluate" -> "save"
           [] step = "save" -> "reset"
           [] step = "reset" -> "prepare"
    ELSE CASE step = "split" -> "inner"
           [] step = "inner" -> "normalize"
           [] step = "normalize" -> "train"
           [] step = "train" -> "evaluate"
           [] step = "evaluate" -> "save"
           [] step = "save" -> "idle"

\* A buggy variant of AfterRaise: the exception is swallowed and the run
\* goes on with the next statement.
AfterRaiseContinue(op, step) == NextRunStep(op, step)

\* No statement of either method is inside a try block: an exception ends
\* the method
AfterRaise(op, step) == "idle"

\* The exception a failing step raises (the external library's own)
StepError(step) ==
    CASE step = "split" -> "SplitError"
      [] step = "folds" -> "FoldsError"
      [] step = "inner" -> "InnerSplitError"
      [] step = "prepare" -> "PrepareError"
      [] step = "normalize" -> "NormalizeError"
      [] step = "train" -> "TrainError"
      [] step = "evaluate" -> "EvaluateError"
      [] step = "save" -> "SaveError"
      [] step = "reset" -> "ResetError"

Entry(step, info) == [step |-> step, fold |-> call.fold, info |-> info]
Logged(step, info) == Append(log, Entry(step, info))

NoCur == [train |-> EmptyPair, inner_val |-> EmptyPair, outer_val |-> EmptyPair]

\* kfcv_train(x, y, names, folds, test_split, train_ratio, test_data,
\* pretrained_weights=...) is called
KfcvTrainCall(folds, test_split, train_ratio, test_data, pretrained_weights) ==
    /\ pc = "idle"
    /\ hist.runs = 0
    /\ pc' = "split"
    /\ call' = [op |-> "kfcv_train", folds |-> folds, test_split |-> test_split,
                train_ratio |-> train_ratio, test_data |-> test_data,
                pretrained_weights |-> pretrained_weights,
                eff_test_split |-> test_split,
                test |-> EmptyPair, train_and_val |-> EmptyPair, folded |-> <<>>,
                fold |-> 0, cur |-> NoCur]
    /\ hist' = [hist EXCEPT !.runs = 1]
    /\ out' = NoOutcome
    /\ log' = <<>>
    /\ UNCHANGED <<model, y_mean, y_std, disk>>

\* full_train(x, y, names, test_split, train_ratio, test_data) is called
FullTrainCall(test_split, train_ratio, test_data) ==
    /\ pc = "idle"
    /\ hist.runs = 0
    /\ pc' = "split"
    /\ call' = [op |-> "full_train", folds |-> 0, test_split |-> test_split,
                train_ratio |-> train_ratio, test_data |-> test_data,
                pretrained_weights |-> None,
                eff_test_split |-> test_split,
                test |-> EmptyPair, train_and_val |-> EmptyPair, folded |-> <<>>,
                fold |-> 0, cur |-> NoCur]
    /\ hist' = [hist EXCEPT !.runs = 1]
    /\ out' = NoOutcome
    /\ log' = <<>>
    /\ UNCHANGED <<model, y_mean, y_std, disk>>

\* lines 71-77 and 134-138: the test split, then the caller's test set
\* when given
StepSplit ==
    /\ pc = "split"
    /\ call.op \in TrainOps
    /\ LET eff == EffectiveTestSplit(call.test_split, call.test_data)
           sp == SplitTestFromTrainAndVal(DataXY, eff)
       IN  call' = [call EXCEPT !.eff_test_split = eff,
                                !.test = TestSet(sp, call.test_data),
                                !.train_and_val = sp.train]
    /\ pc' = NextRunStep(call.op, pc)
    /\ log' = Logged(pc, "")
    /\ UNCHANGED <<model, y_mean, y_std, disk, out, hist>>

\* line 78, and the loop head of line 84 for the first fold
StepFolds ==
    /\ pc = "folds"
    /\ call' = [call EXCEPT !.folded = PrepareFoldedData(call.train_and_val, call.folds)]
    /\ log' = Logged(pc, "")
    /\ IF call.folds > 0
       THEN pc' = NextRunStep(call.op, pc) /\ out' = out
       ELSE pc' = "idle" /\ out' = Ok(call.op, <<>>)
    /\ UNCHANGED <<model, y_mean, y_std, disk, hist>>

\* lines 141-143 of full_train
StepInner ==
    /\ pc = "inner"
    /\ LET sp == SplitInnerVal(call.train_and_val, SeedInnerVal, call.train_ratio)
       IN  call' = [call EXCEPT !.cur = [train |-> sp.train, inner_val |-> sp.inner_val,
                                         outer_val |-> EmptyPair]]
    /\ pc' = NextRunStep(call.op, pc)
    /\ log' = Logged(pc, "")
    /\ UNCHANGED <<model, y_mean, y_std, disk, out, hist>>

\* lines 85-87 of kfcv_train
StepPrepare ==
    /\ pc = "prepare"
    /\ call' = [call EXCEPT !.cur = PrepareDataOneFold(call.folded, call.fold, call.train_ratio)]
    /\ pc' = NextRunStep(call.op, pc)
    /\ log' = Logged(pc, "")
    /\ UNCHANGED <<model, y_mean, y_std, disk, out, hist>>

\* The other_ys of the normalize call: line 88 passes y_inner_val,
\* y_outer_val and y_test, line 144 y_inner_val and y_test; y_test is the
\* local variable, which line 88 assigns in every fold
OtherYs(c) ==
    IF c.op = "kfcv_train"
    THEN <<c.cur.inner_val.y, c.cur.outer_val.y, c.test.y>>
    ELSE <<c.cur.inner_val.y, c.test.y>>

\* lines 88 and 144: normalize and the assignment of what it returns
StepNormalize ==
    /\ pc = "normalize"
    /\ LET st == NormalizeStats(call.cur.train.y, OtherYs(call))
           r == NormalizeResult(call.cur.train.y, OtherYs(call))
       IN  /\ y_mean' = Some(st.mean)
           /\ y_std' = Some(st.std)
           /\ call' = [call EXCEPT
                 !.cur.train.y = r.y_train,
                 !.cur.inner_val.y = r.other_ys[1],
                 !.cur.outer_val.y = IF call.op = "kfcv_train" THEN r.other_ys[2] ELSE @,
                 !.test.y = r.other_ys[Len(r.other_ys)]]
    /\ pc' = NextRunStep(call.op, pc)
    /\ log' = Logged(pc, "")
    /\ hist' = [hist EXCEPT !.statsRun = TRUE, !.statsFrom = "normalize"]
    /\ UNCHANGED <<model, disk, out>>

\* lines 90-93 and 150-153: the trainer gets the held model and returns the
\* fitted one; with no model held it raises
StepTrain ==
    /\ pc = "train"
    /\ ~IsNone(model)
    /\ model' = TrainedModel(model, [run |-> call.op, fold |-> call.fold])
    /\ pc' = NextRunStep(call.op, pc)
    /\ log' = Logged(pc, Val(model).params)
    /\ UNCHANGED <<y_mean, y_std, disk, call, out, hist>>

\* The subsets the method reports on
Subsets(op) ==
    IF op = "kfcv_train" THEN {"train", "inner_val", "outer_val", "test"}
    ELSE {"train", "inner_val", "test"}
SubsetOf(c, s) == IF s = "test" THEN c.test ELSE c.cur[s]

\* A buggy variant of Guarded: no subset is checked for emptiness.
GuardedNone(s) == FALSE

\* lines 101, 106, 156, 160: the subsets whose evaluation is skipped when
\* x.size is 0
Guarded(s) == s \in {"inner_val", "test"}

\* lines 100-109 and 155-163: evaluate(x, y, norm=True) on each subset, or
\* (np.NaN, np.NaN) for a guarded subset of size 0
EvaluateCalled(c, s) == ~(Guarded(s) /\ Size(SubsetOf(c, s).x) = 0)
SubsetMetrics(c, s) ==
    IF EvaluateCalled(c, s)
    THEN EvaluateResult(model, y_mean, y_std, SubsetOf(c, s).x, SubsetOf(c, s).y, TRUE).value
    ELSE <<NaN, NaN>>

StepEvaluate ==
    /\ pc = "evaluate"
    /\ pc' = NextRunStep(call.op, pc)
    /\ log' = Logged(pc, [sizes |-> [s \in Subsets(call.op) |-> Size(SubsetOf(call, s).x)],
                          evaluated |-> {s \in Subsets(call.op) : EvaluateCalled(call, s)},
                          metrics |-> [s \in Subsets(call.op) |-> SubsetMetrics(call, s)]])
    /\ UNCHANGED <<model, y_mean, y_std, disk, call, out, hist>>

\* lines 124 and 174
RunModelPath(c) == IF c.op = "kfcv_train" THEN FoldPath(c.fold) ELSE ModelPath

\* lines 125 and 175: save_model; full_train returns after it
StepSave ==
    /\ pc = "save"
    /\ disk' = SavedDisk(disk, RunModelPath(call), hist.saves + 1, model, y_mean, y_std)
    /\ hist' = [hist EXCEPT !.saves = @ + 1,
                   !.persisted = Append(@, [path |-> RunModelPath(call),
                        files |-> [e \in ExtSet |->
                            FileContent(hist.saves + 1, e, model, y_mean, y_std)]])]
    /\ pc' = NextRunStep(call.op, pc)
    /\ log' = Logged(pc, RunModelPath(call))
    /\ out' = IF NextRunStep(call.op, pc) = "idle" THEN Ok(call.op, <<>>) ELSE out
    /\ UNCHANGED <<model, y_mean, y_std, call>>

\* lines 128-131 and the loop head of line 84: reload the pretrained
\* weights, or reset the model; then the next fold, or return.  A missing
\* weights file makes load_weights raise.
StepReset ==
    /\ pc = "reset"
    /\ IF ~IsNone(call.pretrained_weights)
       THEN /\ Exists(disk, Val(call.pretrained_weights))
            /\ model' = LoadedModel(model, disk[Val(call.pretrained_weights)])
            /\ log' = Logged("load_weights", "")
       ELSE /\ model' = ResetModelOf(model)
            /\ log' = Logged("reset_model", "")
    /\ call' = [call EXCEPT !.fold = @ + 1]
    /\ IF call.fold + 1 < call.folds
       THEN pc' = NextRunStep(call.op, pc) /\ out' = out
       ELSE pc' = "idle" /\ out' = Ok(call.op, <<>>)
    /\ UNCHANGED <<y_mean, y_std, disk, hist>>

\* A step raises: the external call it makes fails.  A failing save_model
\* has done some of its six statements; every other step has changed
\* nothing when it raises.
StepRaises ==
    /\ pc \in RunSteps
    /\ call.op \in TrainOps
    /\ \/ pc # "save" /\ disk' = disk
       \/ /\ pc = "save"
          /\ \E n \in 0..(Len(SaveOrder) - 1) :
                disk' = SaveUpTo(disk, RunModelPath(call), n, hist.saves + 1,
                                 model, y_mean, y_std)
    /\ pc' = AfterRaise(call.op, pc)
    /\ out' = Raised(call.op, StepError(pc))
    /\ log' = Logged("raise", pc)
    /\ UNCHANGED <<model, y_mean, y_std, call, hist>>

\* load_weights(model_weights_path), lines 35-37, called by the user
LoadWeights(f) ==
    /\ pc = "idle"
    /\ hist.runs = 0
    /\ IF IsNone(model)
       THEN out' = Raised("load_weights", "AttributeError") /\ model' = model
       ELSE IF ~Exists(disk, f)
       THEN out' = Raised("load_weights", "IOError") /\ model' = model
       ELSE out' = Ok("load_weights", <<>>) /\ model' = LoadedModel(model, disk[f])
    /\ UNCHANGED <<y_mean, y_std, disk, pc, call, log, hist>>

\* evaluate(x, y, norm), lines 205-212, called by the user after training
Evaluate(d, norm) ==
    /\ pc = "idle"
    /\ hist.runs = 1
    /\ call' = [op |-> "evaluate", x |-> d.x, y |-> d.y, norm |-> norm,
                pre |-> <<model, y_mean, y_std>>,
                invoked |-> MetricsInvoked(model, y_mean, y_std, d.x, norm)]
    /\ out' = EvaluateResult(model, y_mean, y_std, d.x, d.y, norm)
    /\ UNCHANGED <<model, y_mean, y_std, disk, pc, log, hist>>

----------------------------------------------------------------------------
(* SpecTrain: one Predictor through one training run, as the training      *)
(* script drives it: build the model, optionally load pretrained weights,  *)
(* run kfcv_train or full_train once, then evaluate.                       *)

TestSplits == {0, 25}
TrainRatios == {50, 100}
TestDatas == {None, Some(TestData)}
PretrainedChoices == {None, Some(PretrainedFile)}

InitTrain ==
    /\ model = None
    /\ y_mean = None
    /\ y_std = None
    /\ \/ disk = <<>>
       \/ disk = [f \in {PretrainedFile} |-> Content(0, <<"weights", PretrainedParams>>)]
    /\ pc = "idle"
    /\ call = [op |-> ""]
    /\ out = NoOutcome
    /\ log = <<>>
    /\ hist = [saves |-> 0, done |-> NoDone, statsRun |-> FALSE, statsFrom |-> "unset",
               runs |-> 0, persisted |-> <<>>, backedUp |-> None]

NextTrain ==
    \/ BuildModel
    \/ LoadWeights(PretrainedFile)
    \/ \E folds \in 1..MaxFolds, ts \in TestSplits, tr \in TrainRatios,
          td \in TestDatas, pw \in PretrainedChoices :
            KfcvTrainCall(folds, ts, tr, td, pw)
    \/ \E ts \in TestSplits, tr \in TrainRatios, td \in TestDatas :
            FullTrainCall(ts, tr, td)
    \/ StepSplit
    \/ StepFolds
    \/ StepInner
    \/ StepPrepare
    \/ StepNormalize
    \/ StepTrain
    \/ StepEvaluate
    \/ StepSave
    \/ StepReset
    \/ StepRaises
    \/ \E n \in 0..1, norm \in BOOLEAN : Evaluate(Slice(DataXY, 1, n), norm)

SpecTrain == InitTrain /\ [][NextTrain]_vars

----------------------------------------------------------------------------
(* Claims about the training runs                                          *)

InRun == call.op \in TrainOps
\* The labels the caller gave for the rows of a label array
Orig(y) == [k \in 1..Len(y) |-> YRow(y[k].src, y[k].i)]
\* The arrays are handed to the trainer at "train" and to evaluate at
\* "evaluate"
Handing == InRun /\ pc \in {"train", "evaluate"}

StandardizedOnce(s) ==
    SubsetOf(call, s).y =
        Standardize(Orig(SubsetOf(call, s).y),
                    Mean(Values(Orig(call.cur.train.y))),
                    Std(Values(Orig(call.cur.train.y))))

\* C4: whenever label arrays are handed to the trainer or to evaluate, the
\* stored statistics are the mean and std of the current training labels
\* as the caller gave them, and every array handed over (train, inner-val,
\* outer-val, test) is the caller's labels of those rows standardized once
\* with these statistics.
C4_StandardizedOnceWithFoldStats ==
    Handing =>
        /\ y_mean = Some(Mean(Values(Orig(call.cur.train.y))))
        /\ y_std = Some(Std(Values(Orig(call.cur.train.y))))
        /\ \A s \in Subsets(call.op) : StandardizedOnce(s)

\* What does hold: the statistics, and every array but the test labels of
\* the folds after the first
C4_AllButLaterTestLabels ==
    Handing =>
        /\ y_mean = Some(Mean(Values(Orig(call.cur.train.y))))
        /\ y_std = Some(Std(Values(Orig(call.cur.train.y))))
        /\ \A s \in Subsets(call.op) : (s # "test" \/ call.fold = 0) => StandardizedOnce(s)

Last(s) == s[Len(s)]
StatsSet(mean, std) == ~IsNone(mean) /\ ~IsNone(std)

\* C5 as stated: every request for RMSE/MAE on a subset of zero rows, by a
\* call of evaluate on a usable Predictor or for any subset inside
\* kfcv_train and full_train, yields (NaN, NaN) without raising and without
\* the metric functions being invoked.
C5_AsStated ==
    /\ \A i \in 1..Len(log) :
          log[i].step = "evaluate" =>
              \A s \in DOMAIN log[i].info.sizes :
                  log[i].info.sizes[s] = 0 =>
                      /\ s \notin log[i].info.evaluated
                      /\ log[i].info.metrics[s] = <<NaN, NaN>>
    /\ (/\ out.op = "evaluate"
        /\ Len(call.x) = 0
        /\ ~IsNone(call.pre[1])
        /\ StatsSet(call.pre[2], call.pre[3])) =>
            /\ out.status = "ok"
            /\ out.value = <<NaN, NaN>>
            /\ ~call.invoked

\* C5 amended: inside kfcv_train and full_train an inner-validation or test
\* subset whose x has size 0 gets (NaN, NaN) and evaluate is not called
\* for it; every other subset (the train and outer-validation subsets
\* whatever their size, inner-validation and test when not empty) is
\* passed to evaluate.  evaluate has no check of its own: called with a
\* model held and, unless norm is set, the statistics set, it invokes the
\* metric functions, on empty arrays too.
C5_OnlyInnerValAndTestGuarded ==
    /\ \A i \in 1..Len(log) :
          log[i].step = "evaluate" =>
              \A s \in DOMAIN log[i].info.sizes :
                  IF s \in {"inner_val", "test"} /\ log[i].info.sizes[s] = 0
                  THEN /\ s \notin log[i].info.evaluated
                       /\ log[i].info.metrics[s] = <<NaN, NaN>>
                  ELSE s \in log[i].info.evaluated
    /\ out.op = "evaluate" =>
          (call.invoked <=>
              (~IsNone(call.pre[1]) /\ (call.norm \/ StatsSet(call.pre[2], call.pre[3]))))

\* C5 witness: a fold of kfcv_train was evaluated with an empty
\* inner-validation subset and an empty test subset, both reported as NaN
\* and neither passed to evaluate.
C5_Witness ==
    /\ log # <<>>
    /\ Last(log).step = "evaluate"
    /\ call.op = "kfcv_train"
    /\ Last(log).info.sizes["inner_val"] = 0
    /\ Last(log).info.sizes["test"] = 0
    /\ Last(log).info.evaluated = {"train", "outer_val"}
    /\ Last(log).info.metrics["test"] = <<NaN, NaN>>

Discards == {"reset_model", "load_weights"}

\* C6: in kfcv_train, between the save of fold k and the training of fold
\* k+1 exactly one parameter-discarding step runs, load_weights when
\* pretrained_weights was given and reset_model otherwise, and the training
\* of fold k+1 starts from parameters no fold has trained.
C6_OneDiscardBetweenFolds ==
    call.op = "kfcv_train" =>
        /\ \A i \in 1..Len(log) :
              (log[i].step = "train" /\ log[i].fold > 0) =>
                  /\ log[i].info.trained = <<>>
                  /\ log[i].info.origin =
                         IF IsNone(call.pretrained_weights) THEN "init" ELSE "file"
                  /\ \E j \in 1..(i - 1) :
                        /\ log[j].step = "save"
                        /\ log[j].fold = log[i].fold - 1
                        /\ Cardinality({k \in (j + 1)..(i - 1) : log[k].step \in Discards}) = 1
                        /\ \A k \in (j + 1)..(i - 1) :
                              log[k].step \in Discards =>
                                  log[k].step = IF IsNone(call.pretrained_weights)
                                                THEN "reset_model" ELSE "load_weights"
        /\ (pc = "train" /\ call.fold > 0) => Val(model).params.trained = <<>>

\* C6 witness: the second fold has been trained, from reloaded pretrained
\* weights.
C6_Witness ==
    /\ call.op = "kfcv_train"
    /\ ~IsNone(call.pretrained_weights)
    /\ pc = "evaluate"
    /\ call.fold = 1
    /\ Last(log).step = "train"
    /\ Last(log).info = PretrainedParams

FoldSteps == <<"prepare", "normalize", "train", "evaluate", "save">>

\* C7: a kfcv_train run that returns has done, for each fold i from 0 to
\* folds - 1 in this order, prepare, normalize, train, evaluate and then
\* save_model on model_fold_i, followed by the reset or reload, and
\* nothing else after the test split and the folding: exactly folds
\* save_model calls, each after its fold's training and evaluation and
\* before any step of the next fold; the artifacts are on disk.
C7_OneSavePerFoldInOrder ==
    (out.op = "kfcv_train" /\ out.status = "ok") =>
        /\ Len(log) = 2 + 6 * call.folds
        /\ log[1].step = "split"
        /\ log[2].step = "folds"
        /\ \A i \in 0..(call.folds - 1) :
              /\ \A k \in 1..5 :
                    /\ log[2 + 6 * i + k].step = FoldSteps[k]
                    /\ log[2 + 6 * i + k].fold = i
              /\ log[2 + 6 * i + 5].info = FoldPath(i)
              /\ log[2 + 6 * i + 6].step \in Discards
              /\ log[2 + 6 * i + 6].fold = i
              /\ \A e \in ExtSet : Exists(disk, PrimaryFile(FoldPath(i), e))
        /\ Cardinality({k \in 1..Len(log) : log[k].step = "save"}) = call.folds

\* C7 witness: a run with folds = 2 has returned.
C7_Witness ==
    /\ out.op = "kfcv_train"
    /\ out.status = "ok"
    /\ call.folds = 2
    /\ Exists(disk, PrimaryFile(FoldPath(1), "h5"))

SplitDone == InRun /\ log # <<>> /\ log[1].step = "split"

\* C8: once the test split is done, with test_data given the split was made
\* with test_split 0 and the test features and the rows of the test labels
\* are those of test_data, none a row of x and y; with no test_data the
\* split used the test_split argument and the test rows are rows of x, y.
C8_CallerTestDataTakesPrecedence ==
    SplitDone =>
        IF ~IsNone(call.test_data)
        THEN /\ call.eff_test_split = 0
             /\ call.test.x = Val(call.test_data).x
             /\ Rows(call.test.y) = Rows(Val(call.test_data).y)
             /\ \A r \in RowSet(call.test.x) : r.src = "td"
        ELSE /\ call.eff_test_split = call.test_split
             /\ Len(call.test.x) = (NRows * call.test_split) \div 100
             /\ Rows(call.test.y) = call.test.x
             /\ \A r \in RowSet(call.test.x) : r.src = "xy"

\* C8 witness: a fold is trained with the caller's test_data although a
\* test_split of 25 percent was asked for.
C8_Witness ==
    /\ SplitDone
    /\ call.op = "kfcv_train"
    /\ pc = "evaluate"
    /\ ~IsNone(call.test_data)
    /\ call.test_split = 25
    /\ Len(call.test.x) = TestRows

\* C9: a step that raises is the last step of its run: the method ends
\* there, with the step's own exception; and every artifact a completed
\* save_model of the run has written stays on disk as written.
C9_FailureAbortsRun ==
    /\ \A i \in 1..Len(log) :
          log[i].step = "raise" => (i = Len(log) /\ pc = "idle")
    /\ (log # <<>> /\ Last(log).step = "raise" /\ out.op \in TrainOps) =>
          /\ out.status = "raised"
          /\ out.op = call.op
          /\ out.err = StepError(Last(log).info)
    /\ \A j \in 1..Len(hist.persisted) :
          \A e \in ExtSet :
              /\ Exists(disk, PrimaryFile(hist.persisted[j].path, e))
              /\ disk[PrimaryFile(hist.persisted[j].path, e)] = hist.persisted[j].files[e]

\* C9 witness: save_model of the second fold raised after writing some of
\* its files; the first fold's artifacts are on disk.
C9_Witness ==
    /\ log # <<>>
    /\ Last(log).step = "raise"
    /\ Last(log).info = "save"
    /\ Last(log).fold = 1
    /\ Len(hist.persisted) = 1
    /\ Exists(disk, PrimaryFile(FoldPath(1), "json"))
    /\ ~Exists(disk, PrimaryFile(FoldPath(1), "attr"))
    /\ out = Raised("kfcv_train", "SaveError")

\* C10: when kfcv_train returns with folds >= 1 the held model carries no
\* training and is none of the persisted models, and y_mean, y_std are the
\* statistics of the last fold's training labels; when full_train returns
\* the held model is the trained model in the weights file and the
\* statistics are those in the statistics file.
C10_StateOnReturn ==
    /\ (out.op = "kfcv_train" /\ out.status = "ok" /\ call.folds >= 1) =>
          LET last == PrepareDataOneFold(call.folded, call.folds - 1, call.train_ratio)
          IN  /\ Val(model).params.trained = <<>>
              /\ \A j \in 1..Len(hist.persisted) :
                    hist.persisted[j].files["h5"].data[2] # Val(model).params
              /\ y_mean = Some(Mean(Values(last.train.y)))
              /\ y_std = Some(Std(Values(last.train.y)))
    /\ (out.op = "full_train" /\ out.status = "ok") =>
          /\ Val(model).params.trained # <<>>
          /\ Last(Val(model).params.trained).run = "full_train"
          /\ disk[PrimaryFile(ModelPath, "h5")].data = <<"weights", Val(model).params>>
          /\ disk[PrimaryFile(ModelPath, "attr")].data = <<"stats", y_mean, y_std>>
          /\ y_mean = Some(Mean(Values(Orig(call.cur.train.y))))

\* C10 witness: kfcv_train with two folds and pretrained weights has
\* returned; the held model has the pretrained parameters.
C10_Witness ==
    /\ out.op = "kfcv_train"
    /\ out.status = "ok"
    /\ call.folds = 2
    /\ ~IsNone(call.pretrained_weights)
    /\ Val(model).params = PretrainedParams
    /\ Len(hist.persisted) = 2

====
